---- MODULE Spec2Model ----
(***************************************************************************)
(* SSL certificate expiry checker (src/ssl-cert-checker/checker.py).       *)
(*                                                                         *)
(* main() loads the configuration, submits one check_site task per site   *)
(* to a ThreadPoolExecutor of MAX_WORKERS threads, collects the results   *)
(* with as_completed and turns the statuses into the exit code.            *)
(*                                                                         *)
(* Time is counted in ticks, TicksPerDay ticks to the day, so that         *)
(* timedelta.days (a floor division) is computed and not assumed.          *)
(* A host is <<"host", i>>, a configured name is <<"name", k>>.            *)
(***************************************************************************)
EXTENDS Integers, Sequences, FiniteSets, TLC

VARIABLES
    cfg_state,      \* the file at args.config: "missing", "invalid" or "valid"
    sites,          \* cfg.get('sites', []): the sequence of entries
    thresholds,     \* cfg.get('thresholds', {})
    slack_env,      \* os.environ.get('SLACK_WEBHOOK_URL'): "unset", "empty", "url"
    no_slack,       \* args.no_slack
    net,            \* per site: what the network and the streams do to its task
    now,            \* datetime.now(utc), in ticks
    pc,             \* the position of main()
    submitted,      \* how many sites the comprehension of line 115 has submitted
    fut,            \* per site: its future (state, outcome, side effects)
    yielded,        \* the futures as_completed has handed to the loop of line 116
    results,        \* the list results of line 111
    exit_code       \* the exit status of the process: <<>> while it runs, then <<status>>

vars == <<cfg_state, sites, thresholds, slack_env, no_slack, net, now,
          pc, submitted, fut, yielded, results, exit_code>>

envvars == <<cfg_state, sites, thresholds, slack_env, no_slack, net, now>>

-----------------------------------------------------------------------------
(* Program constants *)

MAX_WORKERS == 10
DefaultPort == 443
DefaultErrorDays == 7
DefaultWarningDays == 30
Sentinel == -9999
ExitConfigMissing == 2
ExitUncaught == 1

(* Bounds of the model *)

MaxSites == 3
TicksPerDay == 2
MaxThr == 3
PoolExtra == 1

NoRet == <<>>
Absent == <<"absent", 0>>

-----------------------------------------------------------------------------
(* Values of the configuration *)

\* A value stored under a key of the thresholds mapping: an integer, no such
\* key, or a value that does not compare with an int (a string, null).
IntVal(n) == [kind |-> "int", val |-> n]
NoKey == [kind |-> "absent", val |-> 0]
BadVal == [kind |-> "bad", val |-> 0]

\* dict.get(key, default)
Get(v, default) == IF v.kind = "absent" THEN IntVal(default) ELSE v

Host(i) == <<"host", i>>
Name(k) == <<"name", k>>

\* One element of the sites list: a mapping with host and optional port and name,
\* or something that is no mapping (a bare string, null).
Mapping(host, port, name) == [mapping |-> TRUE, host |-> host, port |-> port, name |-> name]
Scalar(host) == [mapping |-> FALSE, host |-> host, port |-> NoKey, name |-> Absent]

Port(entry) == Get(entry.port, DefaultPort).val
Label(entry) == IF entry.name = Absent THEN entry.host ELSE entry.name

\* slack_webhook as main() passes it to check_site; "if slack_webhook" is its truth value
SlackWebhook == IF no_slack THEN "unset" ELSE slack_env
Truthy(webhook) == webhook = "url"

-----------------------------------------------------------------------------
(* days_until *)

\* days_until with the fault of rounding toward zero instead of downward
days_until_toward_zero(dt, clock) ==
    IF dt < clock THEN 0 - ((clock - dt) \div TicksPerDay)
    ELSE (dt - clock) \div TicksPerDay

days_until(dt, clock) == (dt - clock) \div TicksPerDay

-----------------------------------------------------------------------------
(* The classification of check_site, with the exceptions it can raise *)

Raised == [raised |-> TRUE, status |-> "NONE"]
Status(s) == [raised |-> FALSE, status |-> s]

\* Classify with the fault of comparing the error threshold with >= instead of <=
ClassifyReversed(days, thr) ==
    IF days < 0 THEN Status("EXPIRED")
    ELSE IF ~thr.mapping THEN Raised
    ELSE LET e == Get(thr.error_days, DefaultErrorDays) IN
         IF e.kind = "bad" THEN Raised
         ELSE IF days >= e.val THEN Status("ERROR")
         ELSE LET w == Get(thr.warning_days, DefaultWarningDays) IN
              IF w.kind = "bad" THEN Raised
              ELSE IF days <= w.val THEN Status("WARNING")
              ELSE Status("OK")

\* Classify with the fault of testing warning_days before error_days
ClassifyWarningFirst(days, thr) ==
    IF days < 0 THEN Status("EXPIRED")
    ELSE IF ~thr.mapping THEN Raised
    ELSE LET w == Get(thr.warning_days, DefaultWarningDays) IN
         IF w.kind = "bad" THEN Raised
         ELSE IF days <= w.val THEN Status("WARNING")
         ELSE LET e == Get(thr.error_days, DefaultErrorDays) IN
              IF e.kind = "bad" THEN Raised
              ELSE IF days <= e.val THEN Status("ERROR")
              ELSE Status("OK")

\* Classify with the fault of comparing the error threshold with < instead of <=
ClassifyStrict(days, thr) ==
    IF days < 0 THEN Status("EXPIRED")
    ELSE IF ~thr.mapping THEN Raised
    ELSE LET e == Get(thr.error_days, DefaultErrorDays) IN
         IF e.kind = "bad" THEN Raised
         ELSE IF days < e.val THEN Status("ERROR")
         ELSE LET w == Get(thr.warning_days, DefaultWarningDays) IN
              IF w.kind = "bad" THEN Raised
              ELSE IF days <= w.val THEN Status("WARNING")
              ELSE Status("OK")

Classify(days, thr) ==
    IF days < 0 THEN Status("EXPIRED")
    ELSE IF ~thr.mapping THEN Raised
    ELSE LET e == Get(thr.error_days, DefaultErrorDays) IN
         IF e.kind = "bad" THEN Raised
         ELSE IF days <= e.val THEN Status("ERROR")
         ELSE LET w == Get(thr.warning_days, DefaultWarningDays) IN
              IF w.kind = "bad" THEN Raised
              ELSE IF days <= w.val THEN Status("WARNING")
              ELSE Status("OK")

Alerting == {"WARNING", "ERROR", "EXPIRED"}

-----------------------------------------------------------------------------
(* check_site *)

\* What a call of check_site leaves behind. via is the line it left by: the
\* return of line 81 or 91, or an exception raised at line 56 (entry.get on
\* something that is no mapping) or at line 85 (the print in the handler).
\* out and err count the lines it printed to stdout and stderr, sends the
\* calls of send_slack it made, delivered those that succeeded.
Outcome(via, ret, out, err, sends, delivered) ==
    [via |-> via, ret |-> ret, out |-> out, err |-> err,
     sends |-> sends, delivered |-> delivered]

HasRaised(res) == res.via \in {"raise56", "raise85"}

\* The handler of lines 83-91, entered with the effects made so far.
Handler(label, io, slackOn, out, err, sends, delivered) ==
    IF ~io.print85 THEN Outcome("raise85", NoRet, out, err, sends, delivered)
    ELSE IF slackOn
         THEN Outcome("return91", <<label, "ERROR", Sentinel>>, out, err + 1, sends + 1,
                      delivered + (IF io.send88 THEN 1 ELSE 0))
         ELSE Outcome("return91", <<label, "ERROR", Sentinel>>, out, err + 1, sends, delivered)

\* Lines 74-81: the alert for a status that warrants one, and the return.
Notify(label, status, days, slackOn, io) ==
    IF slackOn /\ status \in Alerting
    THEN IF io.send77 THEN Outcome("return81", <<label, status, days>>, 1, 0, 1, 1)
         ELSE IF io.print79 THEN Outcome("return81", <<label, status, days>>, 1, 1, 1, 0)
         ELSE Handler(label, io, slackOn, 1, 0, 1, 0)
    ELSE Outcome("return81", <<label, status, days>>, 1, 0, 0, 0)

\* Lines 62-81, after a successful fetch.
Checked(label, exp, thr, slackOn, io, clock) ==
    LET days == days_until(exp, clock)
        c == Classify(days, thr)
    IN  IF c.raised THEN Handler(label, io, slackOn, 0, 0, 0, 0)
        ELSE IF ~io.print72 THEN Handler(label, io, slackOn, 0, 0, 0, 0)
        ELSE Notify(label, c.status, days, slackOn, io)

check_site(entry, n, thr, webhook, clock) ==
    IF ~entry.mapping THEN Outcome("raise56", NoRet, 0, 0, 0, 0)
    ELSE IF ~n.fetch.ok THEN Handler(Label(entry), n.io, Truthy(webhook), 0, 0, 0, 0)
    ELSE Checked(Label(entry), n.fetch.exp, thr, Truthy(webhook), n.io, clock)

-----------------------------------------------------------------------------
(* The aggregation of lines 119-127 *)

Codes(rs) == {rs[k][2] : k \in 1..Len(rs)}

\* ExitCode with the fault of looking for WARNING before ERROR and EXPIRED
ExitCodeWarningFirst(rs) ==
    IF "WARNING" \in Codes(rs) THEN 1
    ELSE IF "ERROR" \in Codes(rs) \/ "EXPIRED" \in Codes(rs) THEN 2
    ELSE 0

\* ExitCode with the fault of treating a run without results as an error
ExitCodeEmptyFails(rs) ==
    IF rs = <<>> THEN 2
    ELSE IF "ERROR" \in Codes(rs) \/ "EXPIRED" \in Codes(rs) THEN 2
    ELSE IF "WARNING" \in Codes(rs) THEN 1
    ELSE 0

ExitCode(rs) ==
    IF "ERROR" \in Codes(rs) \/ "EXPIRED" \in Codes(rs) THEN 2
    ELSE IF "WARNING" \in Codes(rs) THEN 1
    ELSE 0

-----------------------------------------------------------------------------
(* The inputs of a run *)

Fetched(exp) == [ok |-> TRUE, exp |-> exp]
FetchFailed == [ok |-> FALSE, exp |-> 0]

\* The expiry that lies d whole days and r ticks after the clock
ExpOf(d, r, clock) == clock + d * TicksPerDay + r

\* Whether each fallible call of check_site succeeds: print(message) of line 72,
\* send_slack of line 77, the print to stderr of line 79, the print to stderr of
\* line 85 and send_slack of line 88.
IO(p72, s77, p79, p85, s88) ==
    [print72 |-> p72, send77 |-> s77, print79 |-> p79, print85 |-> p85, send88 |-> s88]
IOok == IO(TRUE, TRUE, TRUE, TRUE, TRUE)
IOAll == [print72 : BOOLEAN, send77 : BOOLEAN, print79 : BOOLEAN,
          print85 : BOOLEAN, send88 : BOOLEAN]

Thr(e, w) == [mapping |-> TRUE, error_days |-> e, warning_days |-> w]
ThrDefault == Thr(NoKey, NoKey)
ThrNotMapping == [mapping |-> FALSE, error_days |-> NoKey, warning_days |-> NoKey]

\* The shapes an element of the sites list takes: no mapping at all, a mapping
\* with only host, a mapping with host, port and name.
Plain(i) == Mapping(Host(i), NoKey, Absent)
Named(i) == Mapping(Host(i), IntVal(8443), Name(1))
Entry(i, shape) ==
    IF shape = "scalar" THEN Scalar(Host(i))
    ELSE IF shape = "plain" THEN Plain(i)
    ELSE Named(i)

\* A site of the configuration with what happens to its task: the host is
\* unreachable, or presents a certificate that expires d days and r ticks
\* after the start of the run.
Site(shape, cert, io) == [shape |-> shape, cert |-> cert, io |-> io]
Unreachable == [ok |-> FALSE, d |-> 0, r |-> 0]
Cert(d, r) == [ok |-> TRUE, d |-> d, r |-> r]
FetchOf(cert, clock) ==
    IF cert.ok THEN Fetched(ExpOf(cert.d, cert.r, clock)) ELSE FetchFailed

NoOutcome == Outcome("none", NoRet, 0, 0, 0, 0)
NewFuture == [st |-> "unsubmitted", res |-> NoOutcome]

\* The state main() starts in, the configuration being valid: the first site
\* drawn from First, the others from Rest, the thresholds and the environment
\* from the given sets.
InitValid(Ns, First, Rest, Thrs, Slacks, Clocks) ==
    /\ cfg_state = "valid"
    /\ now \in Clocks
    /\ \E n \in Ns : \E hd \in First : \E tl \in [2..n -> Rest] :
          LET ch == [i \in 1..n |-> IF i = 1 THEN hd ELSE tl[i]] IN
          /\ sites = [i \in 1..n |-> Entry(i, ch[i].shape)]
          /\ net = [i \in 1..n |-> [fetch |-> FetchOf(ch[i].cert, now), io |-> ch[i].io]]
          /\ fut = [i \in 1..n |-> NewFuture]
    /\ thresholds \in Thrs
    /\ \E s \in Slacks : slack_env = s[1] /\ no_slack = s[2]
    /\ pc = "start" /\ submitted = 0 /\ yielded = {} /\ results = <<>>
    /\ exit_code = <<>>

\* The same with no usable configuration file
InitNoConfig ==
    /\ cfg_state \in {"missing", "invalid"}
    /\ now = 0 /\ sites = <<>> /\ net = <<>> /\ fut = <<>>
    /\ thresholds = ThrDefault /\ slack_env = "url" /\ no_slack = FALSE
    /\ pc = "start" /\ submitted = 0 /\ yielded = {} /\ results = <<>>
    /\ exit_code = <<>>

-----------------------------------------------------------------------------
(* main *)

N == Len(sites)
Running == {i \in 1..N : fut[i].st = "running"}
AllFinished == \A i \in 1..N : fut[i].st = "finished"

\* ConfigMissing with the fault of reporting the missing file and going on
ConfigMissingNoExit ==
    /\ pc = "start" /\ cfg_state = "missing"
    /\ pc' = "submit"
    /\ UNCHANGED <<envvars, submitted, fut, yielded, results, exit_code>>

\* Lines 99-102: the configuration file does not exist
ConfigMissing ==
    /\ pc = "start" /\ cfg_state = "missing"
    /\ pc' = "config_exit" /\ exit_code' = <<ExitConfigMissing>>
    /\ UNCHANGED <<envvars, submitted, fut, yielded, results>>

\* Lines 104-106: load_config or cfg.get raises, nothing catches it
ConfigInvalid ==
    /\ pc = "start" /\ cfg_state = "invalid"
    /\ pc' = "crashed" /\ exit_code' = <<ExitUncaught>>
    /\ UNCHANGED <<envvars, submitted, fut, yielded, results>>

\* Lines 104-114: the configuration is loaded and the executor created
LoadConfig ==
    /\ pc = "start" /\ cfg_state = "valid"
    /\ pc' = "submit"
    /\ UNCHANGED <<envvars, submitted, fut, yielded, results, exit_code>>

\* Line 115: executor.submit for the next site
Submit ==
    /\ pc = "submit" /\ submitted < N
    /\ submitted' = submitted + 1
    /\ fut' = [fut EXCEPT ![submitted + 1].st = "pending"]
    /\ UNCHANGED <<envvars, pc, yielded, results, exit_code>>

\* Lines 115-116: every site is submitted, as_completed starts
StartCollecting ==
    /\ pc = "submit" /\ submitted = N
    /\ pc' = "collect"
    /\ UNCHANGED <<envvars, submitted, fut, yielded, results, exit_code>>

\* A worker thread of the pool takes the oldest queued work item; the pool has
\* at most MAX_WORKERS threads, each running one item at a time.
\* CanStart with the fault of a thread for every work item, whatever the size of the pool
CanStartUnbounded(i) ==
    /\ fut[i].st = "pending"
    /\ \A j \in 1..(i - 1) : fut[j].st # "pending"

\* CanStart with the fault of worker threads that end after their first work item
CanStartNoReuse(i) ==
    /\ fut[i].st = "pending"
    /\ \A j \in 1..(i - 1) : fut[j].st # "pending"
    /\ i <= MAX_WORKERS

CanStart(i) ==
    /\ fut[i].st = "pending"
    /\ \A j \in 1..(i - 1) : fut[j].st # "pending"
    /\ Cardinality(Running) < MAX_WORKERS

Start(i) ==
    /\ CanStart(i)
    /\ fut' = [fut EXCEPT ![i].st = "running"]
    /\ UNCHANGED <<envvars, pc, submitted, yielded, results, exit_code>>

\* The worker runs check_site to its end and sets the future's result or exception
Run(i) ==
    /\ fut[i].st = "running"
    /\ fut' = [fut EXCEPT ![i] =
                 [st |-> "finished",
                  res |-> check_site(sites[i], net[i], thresholds, SlackWebhook, now)]]
    /\ UNCHANGED <<envvars, pc, submitted, yielded, results, exit_code>>

\* Lines 116-117: as_completed yields a finished future, results.append(future.result());
\* future.result() re-raises what the task raised, which leaves the loop.
Collect(i) ==
    /\ pc = "collect"
    /\ fut[i].st = "finished" /\ i \notin yielded
    /\ yielded' = yielded \cup {i}
    /\ IF HasRaised(fut[i].res)
       THEN pc' = "unwind" /\ results' = results
       ELSE pc' = pc /\ results' = Append(results, fut[i].res.ret)
    /\ UNCHANGED <<envvars, submitted, fut, exit_code>>

\* Line 114, leaving the with block: shutdown(wait=True) returns when every
\* work item has run.
\* PoolDrained with the fault of shutdown(wait=False)
PoolNotAwaited == TRUE

PoolDrained == AllFinished

\* LeavePool with the fault of leaving the loop at the first result
LeavePoolEarly ==
    /\ pc = "collect" /\ yielded # {}
    /\ pc' = "aggregate"
    /\ UNCHANGED <<envvars, submitted, fut, yielded, results, exit_code>>

LeavePool ==
    /\ pc = "collect" /\ yielded = 1..N
    /\ PoolDrained
    /\ pc' = "aggregate"
    /\ UNCHANGED <<envvars, submitted, fut, yielded, results, exit_code>>

\* The same on the way out with the exception of future.result(): the
\* interpreter prints the traceback and exits with status 1.
Unwind ==
    /\ pc = "unwind"
    /\ PoolDrained
    /\ pc' = "crashed" /\ exit_code' = <<ExitUncaught>>
    /\ UNCHANGED <<envvars, submitted, fut, yielded, results>>

\* Lines 119-127
Aggregate ==
    /\ pc = "aggregate"
    /\ exit_code' = <<ExitCode(results)>>
    /\ pc' = "done"
    /\ UNCHANGED <<envvars, submitted, fut, yielded, results>>

Next ==
    \/ ConfigMissing
    \/ ConfigInvalid
    \/ LoadConfig
    \/ Submit
    \/ StartCollecting
    \/ \E i \in 1..N : Start(i)
    \/ \E i \in 1..N : Run(i)
    \/ \E i \in 1..N : Collect(i)
    \/ LeavePool
    \/ Unwind
    \/ Aggregate

-----------------------------------------------------------------------------
(* Specifications *)

SlackOn == <<"url", FALSE>>
SlackUnset == <<"unset", FALSE>>
Slacks == {SlackUnset, <<"empty", FALSE>>, SlackOn, <<"url", TRUE>>}

\* Runs of up to MaxSites sites: certificates that are expired, in the warning
\* range and fine under the default thresholds, unreachable hosts, an entry
\* that is no mapping, and a stderr that fails.
RunSites ==
    {Site("scalar", Unreachable, IOok)}
    \cup {Site("plain", c, IOok) : c \in {Unreachable} \cup {Cert(d, 0) : d \in {-1, 20, 45}}}
    \cup {Site("plain", Unreachable, IO(TRUE, TRUE, TRUE, FALSE, TRUE))}

Init ==
    \/ InitValid(0..MaxSites, RunSites, RunSites, {ThrDefault, Thr(BadVal, NoKey)},
                 {SlackOn, SlackUnset}, {0})
    \/ InitNoConfig

Spec == Init /\ [][Next]_vars

\* One site, every combination of the outcomes of the fallible calls.
SiteDays == {-1, 0, 5, 20, 45}

SiteSites ==
    {Site("scalar", Unreachable, IOok)}
    \cup {Site(sh, c, io) :
            sh \in {"plain", "named"},
            c \in {Unreachable} \cup {Cert(d, r) : d \in SiteDays, r \in {0, TicksPerDay - 1}},
            io \in IOAll}

SiteThrs == {ThrDefault, ThrNotMapping, Thr(BadVal, NoKey), Thr(NoKey, BadVal),
             Thr(IntVal(1), IntVal(MaxThr))}

InitSite ==
    \/ InitValid({1}, SiteSites, SiteSites, SiteThrs, Slacks, {0})
    \/ InitNoConfig

SpecSite == InitSite /\ [][Next]_vars

\* One site, every shape of the thresholds against every day count around them.
ClassifyDays == (-2..(MaxThr + 2)) \cup {Sentinel, 5, 7, 8, 30, 31, 45}
ThrVals == {NoKey, BadVal} \cup {IntVal(t) : t \in -1..MaxThr}

ClassifySites ==
    {Site("scalar", Unreachable, IOok)}
    \cup {Site("plain", c, IOok) :
            c \in {Unreachable} \cup {Cert(d, r) : d \in ClassifyDays, r \in 0..(TicksPerDay - 1)}}

ClassifyThrs == {ThrNotMapping} \cup {Thr(e, w) : e \in ThrVals, w \in ThrVals}

InitClassify ==
    \/ InitValid({1}, ClassifySites, ClassifySites, ClassifyThrs, {SlackOn}, 0..(TicksPerDay - 1))
    \/ InitNoConfig

SpecClassify == InitClassify /\ [][Next]_vars

\* More sites than workers, the sites alike; and runs of one or two sites,
\* which may be entries that are no mapping or unreachable hosts.
PoolRest == {Site("named", Cert(45, 0), IOok)}
PoolSmall ==
    {Site("plain", Cert(45, 0), IOok),
     Site("plain", Unreachable, IOok),
     Site("scalar", Unreachable, IOok)}

InitPool ==
    \/ InitValid({MAX_WORKERS + PoolExtra}, PoolRest, PoolRest, {ThrDefault}, {SlackUnset}, {0})
    \/ InitValid(1..2, PoolSmall, PoolSmall, {ThrDefault}, {SlackUnset, SlackOn}, {0})
    \/ InitNoConfig

SpecPool == InitPool /\ [][Next]_vars

\* The runs of SpecPool in which a thread that can take a step is not held
\* back forever: main() and the workers are threads of one process, and every
\* fetch and every send_slack returns or raises within its timeout.
SpecFair == InitPool /\ [][Next]_vars /\ WF_vars(Next)

-----------------------------------------------------------------------------
(* Properties *)

Done(i) == fut[i].st = "finished"
Returned(i) == Done(i) /\ ~HasRaised(fut[i].res)
StatusOf(i) == fut[i].res.ret[2]
DaysOf(i) == fut[i].res.ret[3]
StatusesOf(rs) == {rs[k][2] : k \in 1..Len(rs)}

\* C1: a run that reaches aggregation exits with 2 if a collected result is
\* ERROR or EXPIRED, else with 1 if one is WARNING, else with 0: the exit code
\* is a function of the set of statuses alone.
C1_ExitCodeFromStatuses ==
    pc = "done" =>
        LET S == StatusesOf(results) IN
        exit_code = << IF S \cap {"ERROR", "EXPIRED"} # {} THEN 2
                       ELSE IF "WARNING" \in S THEN 1 ELSE 0 >>

\* a run that collected an OK, a WARNING and an EXPIRED result and exited with 2
C1_Witness ==
    /\ pc = "done"
    /\ {"OK", "WARNING", "EXPIRED"} \subseteq StatusesOf(results)
    /\ exit_code = <<2>>

\* The thresholds are a mapping whose error_days and warning_days, given or
\* defaulted, are integers E and W.
IntThresholds ==
    /\ thresholds.mapping
    /\ Get(thresholds.error_days, DefaultErrorDays).kind = "int"
    /\ Get(thresholds.warning_days, DefaultWarningDays).kind = "int"
E == Get(thresholds.error_days, DefaultErrorDays).val
W == Get(thresholds.warning_days, DefaultWarningDays).val

\* The task of site i fetched the certificate, classified it and returned at line 81.
Classified(i) == Done(i) /\ fut[i].res.via = "return81"

FirstMatch(d, e, w) ==
    IF d < 0 THEN "EXPIRED"
    ELSE IF d <= e THEN "ERROR"
    ELSE IF d <= w THEN "WARNING"
    ELSE "OK"

\* C2 as claimed: first match wins in the order EXPIRED, ERROR, WARNING, OK, and
\* for every pair of thresholds (w, e): days = e is ERROR, days = e+1 <= w is
\* WARNING, days = -1 is EXPIRED, days = w+1 is OK; with w = 30 and e = 7,
\* 5 days are ERROR and 45 days are OK.
C2_AsClaimed ==
    \A i \in 1..N : Classified(i) =>
        /\ (DaysOf(i) = -1 => StatusOf(i) = "EXPIRED")
        /\ IntThresholds =>
            /\ StatusOf(i) = FirstMatch(DaysOf(i), E, W)
            /\ (DaysOf(i) = E => StatusOf(i) = "ERROR")
            /\ (DaysOf(i) = E + 1 /\ DaysOf(i) <= W => StatusOf(i) = "WARNING")
            /\ (DaysOf(i) = W + 1 => StatusOf(i) = "OK")
            /\ (E = 7 /\ W = 30 /\ DaysOf(i) = 5 => StatusOf(i) = "ERROR")
            /\ (E = 7 /\ W = 30 /\ DaysOf(i) = 45 => StatusOf(i) = "OK")

\* C2 amended: the same, the boundary cases for thresholds with 0 <= e <= w.
C2_Boundaries ==
    \A i \in 1..N : Classified(i) =>
        /\ (DaysOf(i) = -1 => StatusOf(i) = "EXPIRED")
        /\ IntThresholds =>
            /\ StatusOf(i) = FirstMatch(DaysOf(i), E, W)
            /\ (0 <= E /\ E <= W) =>
                /\ (DaysOf(i) = E => StatusOf(i) = "ERROR")
                /\ (DaysOf(i) = E + 1 /\ DaysOf(i) <= W => StatusOf(i) = "WARNING")
                /\ (DaysOf(i) = W + 1 => StatusOf(i) = "OK")
            /\ (E = 7 /\ W = 30 /\ DaysOf(i) = 5 => StatusOf(i) = "ERROR")
            /\ (E = 7 /\ W = 30 /\ DaysOf(i) = 45 => StatusOf(i) = "OK")

\* a certificate with exactly error_days days left, the thresholds given and
\* consistent, classified ERROR
C2_Witness ==
    /\ N = 1 /\ Classified(1) /\ IntThresholds
    /\ thresholds.error_days.kind = "int" /\ thresholds.warning_days.kind = "int"
    /\ 0 < E /\ E < W
    /\ DaysOf(1) = E /\ StatusOf(1) = "ERROR"

\* C3 as claimed: whatever the entry, the thresholds and the outcomes of the
\* fetch, the classification, the output and the notification, check_site
\* returns a result, and future.result() never raises in main().
C3_NeverRaises ==
    /\ \A i \in 1..N : Done(i) => ~HasRaised(fut[i].res)
    /\ pc \notin {"unwind"}

\* The fetch of site i is attempted and fails / succeeds
FetchFails(i) == sites[i].mapping /\ ~net[i].fetch.ok
FetchOK(i) == sites[i].mapping /\ net[i].fetch.ok
SentinelResult(i) == <<Label(sites[i]), "ERROR", Sentinel>>
Exited == exit_code # <<>>

\* The outcome of every finished task is that of check_site on the inputs of
\* its own site: no other site's failure enters it. (The part of C4 that holds.)
OwnInputsOnly ==
    \A i \in 1..N : Done(i) =>
        fut[i].res = check_site(sites[i], net[i], thresholds, SlackWebhook, now)

\* C4 as claimed: the result of a site depends on that site alone, and a run of
\* 3 sites of which exactly one fetch fails ends with exactly one sentinel
\* ERROR result and two results classified from the certificates.
C4_AsClaimed ==
    /\ OwnInputsOnly
    /\ (/\ Exited /\ N = 3
        /\ Cardinality({i \in 1..N : FetchFails(i)}) = 1
        /\ Cardinality({i \in 1..N : FetchOK(i)}) = 2)
       => /\ pc = "done"
          /\ Cardinality({k \in 1..Len(results) : results[k][3] = Sentinel}) = 1
          /\ \A i \in 1..N : FetchOK(i) =>
                /\ fut[i].res.via = "return81"
                /\ DaysOf(i) = days_until(net[i].fetch.exp, now)

\* C5: when aggregation starts the results are exactly one per submitted task,
\* whatever the order the tasks completed in; before that, one per yielded future.
C5_OneResultPerTask ==
    /\ Len(results) = Cardinality({i \in yielded : ~HasRaised(fut[i].res)})
    /\ pc \in {"aggregate", "done"} =>
        /\ Len(results) = N
        /\ yielded = 1..N
        /\ \A k \in 1..Len(results) :
              Cardinality({m \in 1..Len(results) : results[m] = results[k]})
                = Cardinality({i \in 1..N : fut[i].res.ret = results[k]})
        /\ \A i \in 1..N : Returned(i) /\ \E k \in 1..Len(results) : results[k] = fut[i].res.ret

\* a run of more sites than workers at the start of the aggregation
C5_Witness ==
    /\ pc = "aggregate" /\ N > MAX_WORKERS /\ Len(results) = N

\* C6: at most MAX_WORKERS tasks are running at any time; a task beyond the
\* first MAX_WORKERS has started only if enough earlier ones have finished.
C6_BoundedConcurrency ==
    /\ Cardinality(Running) <= MAX_WORKERS
    /\ \A i \in 1..N :
          (i > MAX_WORKERS /\ fut[i].st \in {"running", "finished"})
          => Cardinality({j \in 1..(i - 1) : Done(j)}) >= i - MAX_WORKERS

\* MAX_WORKERS tasks running and a further one submitted and queued
C6_Witness ==
    /\ Cardinality(Running) = MAX_WORKERS
    /\ \E i \in 1..N : i > MAX_WORKERS /\ fut[i].st = "pending"

\* C7: the exit code is computed, and the process exits, only when every
\* submitted task has completed: none is queued or running.
C7_Barrier ==
    (pc \in {"aggregate", "done", "crashed", "config_exit"} \/ Exited)
    => \A i \in 1..N : Done(i)

\* a run of several sites that ended on the exception of a task, before
\* every future was collected
C7_Witness ==
    /\ pc = "crashed" /\ N >= 2 /\ yielded # 1..N
    /\ \A i \in 1..N : Done(i)

\* C8 as claimed: when the fetch of a site fails, check_site returns ERROR with
\* the sentinel, prints one line to stderr and none to stdout, and the run
\* exits with 2.
C8_AsClaimed ==
    \A i \in 1..N : FetchFails(i) =>
        /\ Done(i) =>
            /\ fut[i].res.via = "return91"
            /\ fut[i].res.ret = SentinelResult(i)
            /\ fut[i].res.err = 1 /\ fut[i].res.out = 0
        /\ Exited => exit_code = <<2>>

\* C9 as claimed: a result carries the sentinel if and only if the fetch of
\* its site failed.
C9_AsClaimed ==
    \A i \in 1..N : Returned(i) => (DaysOf(i) = Sentinel <=> FetchFails(i))

\* C10 as claimed: with a webhook set and not suppressed, a site whose result
\* is OK made no call of send_slack, and one whose result is WARNING, ERROR or
\* EXPIRED made exactly one.
C10_AsClaimed ==
    \A i \in 1..N : (Returned(i) /\ Truthy(SlackWebhook)) =>
        /\ StatusOf(i) = "OK" => fut[i].res.sends = 0
        /\ StatusOf(i) \in Alerting => fut[i].res.sends = 1

\* What check_site does for site i under the webhook given, the calls of
\* send_slack succeeding (s77 at line 77, s88 at line 88) or raising.
SiteRun(i, webhook, s77, s88) ==
    check_site(sites[i],
               [fetch |-> net[i].fetch,
                io |-> [net[i].io EXCEPT !.send77 = s77, !.send88 = s88]],
               thresholds, webhook, now)

\* The exit status of the run in which the tasks end as rs[1], ..., rs[N]
ExitOf(rs) ==
    IF \E i \in 1..N : HasRaised(rs[i]) THEN ExitUncaught
    ELSE ExitCode([i \in 1..N |-> rs[i].ret])

\* C11 as claimed: whether send_slack succeeds or raises, check_site returns
\* the same (status, days_remaining), and the run exits with the same code.
C11_AsClaimed ==
    /\ \A i \in 1..N : Done(i) =>
          \A s77 \in BOOLEAN, s88 \in BOOLEAN :
             /\ SiteRun(i, SlackWebhook, s77, s88).via = fut[i].res.via
             /\ SiteRun(i, SlackWebhook, s77, s88).ret = fut[i].res.ret
    /\ (Exited /\ cfg_state = "valid") =>
          exit_code = <<ExitOf([i \in 1..N |-> SiteRun(i, SlackWebhook, TRUE, TRUE)])>>

\* No call of send_slack is made when the webhook is unset, empty or suppressed.
\* (The part of C12 that holds.)
NoWebhookNoSend ==
    ~Truthy(SlackWebhook) => \A i \in 1..N : fut[i].res.sends = 0

\* C12 as claimed: with no webhook, or with --no-slack, no call of send_slack
\* is made, and every result and the exit code are those of the run with
\* notifications enabled.
C12_AsClaimed ==
    ~Truthy(SlackWebhook) =>
        /\ \A i \in 1..N : fut[i].res.sends = 0
        /\ \A i \in 1..N : Done(i) =>
              /\ SiteRun(i, "url", net[i].io.send77, net[i].io.send88).via = fut[i].res.via
              /\ SiteRun(i, "url", net[i].io.send77, net[i].io.send88).ret = fut[i].res.ret
        /\ (Exited /\ cfg_state = "valid") =>
              exit_code = <<ExitOf([i \in 1..N |->
                              SiteRun(i, "url", net[i].io.send77, net[i].io.send88)])>>

\* The severity order of C13: OK < WARNING < ERROR, EXPIRED as severe as ERROR
Severity(status) ==
    CASE status = "OK" -> 0
      [] status = "WARNING" -> 1
      [] status \in {"ERROR", "EXPIRED"} -> 2

\* C13: with integer thresholds and error_days <= warning_days, a fetched
\* certificate gets exactly one of the four statuses, and the status is
\* monotonic in days_remaining: fewer days are never less severe, more days
\* never more severe.
C13_TotalAndMonotonic ==
    \A i \in 1..N :
       (Done(i) /\ FetchOK(i) /\ net[i].io = IOok /\ IntThresholds /\ E <= W) =>
          /\ Classified(i)
          /\ StatusOf(i) \in {"OK", "WARNING", "ERROR", "EXPIRED"}
          /\ \A d \in ClassifyDays :
                /\ ~Classify(d, thresholds).raised
                /\ Classify(d, thresholds).status \in {"OK", "WARNING", "ERROR", "EXPIRED"}
                /\ d <= DaysOf(i) =>
                      Severity(Classify(d, thresholds).status) >= Severity(StatusOf(i))
                /\ d >= DaysOf(i) =>
                      Severity(Classify(d, thresholds).status) <= Severity(StatusOf(i))

\* A certificate classified WARNING with error_days < warning_days given:
\* fewer days reach ERROR and EXPIRED, more days reach OK.
C13_Witness ==
    /\ N = 1 /\ Classified(1) /\ IntThresholds
    /\ thresholds.error_days.kind = "int" /\ thresholds.warning_days.kind = "int"
    /\ 0 <= E /\ E < W
    /\ StatusOf(1) = "WARNING"
    /\ \E d \in ClassifyDays : d < DaysOf(1) /\ Classify(d, thresholds).status = "ERROR"
    /\ \E d \in ClassifyDays : d > DaysOf(1) /\ Classify(d, thresholds).status = "OK"

\* expiry - now of site i, in ticks
Remaining(i) == net[i].fetch.exp - now

\* C15: days_remaining is the floor of (expiry - now) in days: a duration in
\* [0, 1 day) gives 0 and a negative duration a negative number, so a
\* certificate that expired before now is EXPIRED and no other one is.
C15_WholeDays ==
    \A i \in 1..N :
       /\ Classified(i) =>
             /\ DaysOf(i) * TicksPerDay <= Remaining(i)
             /\ Remaining(i) < (DaysOf(i) + 1) * TicksPerDay
             /\ (0 <= Remaining(i) /\ Remaining(i) < TicksPerDay) => DaysOf(i) = 0
             /\ Remaining(i) < 0 => DaysOf(i) < 0
             /\ Remaining(i) >= 0 => StatusOf(i) # "EXPIRED"
       /\ (Done(i) /\ FetchOK(i) /\ net[i].io = IOok /\ Remaining(i) < 0) =>
             Classified(i) /\ StatusOf(i) = "EXPIRED"

\* A certificate that expired less than a day ago: -1 day, EXPIRED
C15_Witness ==
    /\ N = 1 /\ Classified(1)
    /\ Remaining(1) < 0 /\ Remaining(1) > 0 - TicksPerDay
    /\ DaysOf(1) = 0 - 1 /\ StatusOf(1) = "EXPIRED"

\* C16: error_days is tested first: 0 <= days_remaining <= error_days is ERROR
\* whatever warning_days is (an integer, absent, or no integer at all), and
\* with error_days >= warning_days nothing is classified WARNING.
C16_ErrorFirst ==
    /\ \A i \in 1..N :
          (/\ Done(i) /\ FetchOK(i) /\ net[i].io = IOok /\ thresholds.mapping
           /\ thresholds.error_days.kind # "bad"
           /\ 0 <= days_until(net[i].fetch.exp, now)
           /\ days_until(net[i].fetch.exp, now) <= E) =>
              Classified(i) /\ StatusOf(i) = "ERROR"
    /\ (IntThresholds /\ E >= W) =>
          /\ \A i \in 1..N : Classified(i) => StatusOf(i) # "WARNING"
          /\ \A d \in ClassifyDays : Classify(d, thresholds).status # "WARNING"

\* error_days above warning_days, and a certificate within both: ERROR
C16_Witness ==
    /\ N = 1 /\ Classified(1) /\ IntThresholds
    /\ thresholds.error_days.kind = "int" /\ thresholds.warning_days.kind = "int"
    /\ W < E /\ 0 <= DaysOf(1) /\ DaysOf(1) <= W
    /\ StatusOf(1) = "ERROR"

\* C14: a configuration file that is missing or cannot be loaded ends the
\* run at once with a status other than 0 (2 when the file is missing):
\* main() never reaches the pool, so no task is submitted, nothing is
\* fetched, notified or collected.
C14_ConfigErrorIsFatal ==
    cfg_state \in {"missing", "invalid"} =>
        /\ pc \in {"start", "config_exit", "crashed"}
        /\ submitted = 0 /\ yielded = {} /\ results = <<>>
        /\ \A i \in 1..N : fut[i].st = "unsubmitted" /\ fut[i].res = NoOutcome
        /\ pc # "start" => Exited /\ exit_code # <<0>>
        /\ (pc # "start" /\ cfg_state = "missing") => exit_code = <<ExitConfigMissing>>

\* The run without a configuration file has ended with status 2
C14_Witness ==
    cfg_state = "missing" /\ pc = "config_exit" /\ exit_code = <<2>> /\ submitted = 0

\* C20: with no site configured the run submits no task, makes no fetch and
\* no notification, collects nothing and exits with 0.
C20_EmptyRun ==
    (cfg_state = "valid" /\ N = 0) =>
        /\ submitted = 0 /\ yielded = {} /\ results = <<>> /\ fut = <<>>
        /\ pc \notin {"unwind", "crashed", "config_exit"}
        /\ Exited => pc = "done" /\ exit_code = <<0>>

\* The run over an empty list of sites has ended with status 0
C20_Witness ==
    cfg_state = "valid" /\ sites = <<>> /\ pc = "done" /\ exit_code = <<0>> /\ results = <<>>

\* How often the task of site i called get_certificate_notAfter: once, at
\* line 61, unless line 56 raised before
FetchAttempts(i) == IF fut[i].res.via \in {"none", "raise56"} THEN 0 ELSE 1

\* A finished task is never run again, and no future goes back.
\* (The part of C17 that holds: nothing is retried.)
NothingRepeated ==
    [][\A i \in 1..N :
          /\ fut[i].st = "finished" => fut'[i] = fut[i]
          /\ fut[i].st = "running" => fut'[i].st \in {"running", "finished"}]_vars

\* C17 as claimed: in a run that has ended, the fetch was attempted exactly
\* once for every configured site and every site produced exactly one result.
C17_AsClaimed ==
    (Exited /\ cfg_state = "valid") =>
        \A i \in 1..N : FetchAttempts(i) = 1 /\ Returned(i)

\* What the task of site i ends with, by its own inputs alone
Expected(i) == check_site(sites[i], net[i], thresholds, SlackWebhook, now)

\* The exit status depends on the inputs alone, whatever the schedule.
\* (The part of C18 that holds.)
ExitCodeOrderFree ==
    (Exited /\ cfg_state = "valid") =>
        exit_code = <<ExitOf([i \in 1..N |-> Expected(i)])>>

\* C18 as claimed: in a run that has ended, the exit code and the multiset
\* of collected results are determined by the inputs of the sites: the
\* collection holds the result of every task that returns, once.
C18_AsClaimed ==
    (Exited /\ cfg_state = "valid") =>
        /\ exit_code = <<ExitOf([i \in 1..N |-> Expected(i)])>>
        /\ Len(results) = Cardinality({i \in 1..N : ~HasRaised(Expected(i))})
        /\ \A i \in 1..N : ~HasRaised(Expected(i)) =>
              Cardinality({k \in 1..Len(results) : results[k] = Expected(i).ret})
                 = Cardinality({j \in 1..N : Expected(j).ret = Expected(i).ret})

\* C19: under fair scheduling every run with a valid configuration exits,
\* with every task finished (none cancelled, none left in the queue) and an
\* exit code of 0, 1 or 2.
C19_Terminates ==
    <>(cfg_state = "valid" =>
          /\ Exited /\ pc \in {"done", "crashed"}
          /\ submitted = N /\ AllFinished
          /\ exit_code \in {<<0>>, <<1>>, <<2>>})

\* A run of more sites than workers has ended, every task finished
C19_Witness ==
    /\ cfg_state = "valid" /\ N > MAX_WORKERS
    /\ pc = "done" /\ Exited /\ AllFinished /\ Len(results) = N

====
